---- MODULE Spec2Model ----
(***************************************************************************)
(* Model of executive_order_analysis (src/main.py): the interval table     *)
(* built from inaugurations.json, the search find_inauguration, the        *)
(* attribution loop, the term filter and the cumulative series.            *)
(*                                                                         *)
(* A datetime at midnight is a record [year, month, day]; a date string is *)
(* the tuple of its numeric fields in the order the text has them:         *)
(* <<m, d, y>> for "%m/%d/%Y" and <<y, m, d>> for "%Y-%m-%d".              *)
(***************************************************************************)
EXTENDS Integers, Sequences, FiniteSets, TLC

VARIABLES
    pc,                   \* position of main()
    inaugurations,        \* json.load of inaugurations.json: <<president, dates>> items
    executive_orders,     \* json.load of the cached corpus
    args,                 \* parse_args(): show_counts, start_date, end_date, only_terms
    now,                  \* the day datetime.datetime.now() falls on
    sorted_inaugurations, \* list of Inauguration
    earliest_order_date,
    president_per_day,    \* term key -> (day offset -> count)
    by_term,              \* term key -> list of orders
    order_pos,            \* orders already consumed by the loop of line 130
    i,                    \* enumerate index of the loop of line 147
    sorted_terms,
    inaugurations_by_term,
    table_data,
    datapoints,
    total_sums,
    term_pos,             \* terms already consumed by the loop of line 172
    outcome,              \* how main() ended
    fdate,                \* find_inauguration: its date argument
    index, start, end,    \* find_inauguration: its locals
    fpc,                  \* find_inauguration: position
    fresult,              \* find_inauguration: what it returned or raised
    iters                 \* find_inauguration: loop iterations run (history)

vars == <<pc, inaugurations, executive_orders, args, now, sorted_inaugurations,
          earliest_order_date, president_per_day, by_term, order_pos, i,
          sorted_terms, inaugurations_by_term, table_data, datapoints,
          total_sums, term_pos, outcome, fdate, index, start, end, fpc,
          fresult, iters>>

mainVars == <<pc, inaugurations, executive_orders, args, now, sorted_inaugurations,
              earliest_order_date, president_per_day, by_term, order_pos, i,
              sorted_terms, inaugurations_by_term, table_data, datapoints,
              total_sums, term_pos, outcome>>

findVars == <<fdate, index, start, end, fpc, fresult, iters>>

-----------------------------------------------------------------------------
(* Bounds of the model *)

MaxInaugurations == 3
MaxOrders == 2
MaxTable == 5

(* Program constant, line 13 *)
ONE_YEAR_IN_DAYS == 365

-----------------------------------------------------------------------------
(* Python values *)

None == <<>>
Some(x) == <<x>>
Truthy(opt) == opt # <<>>

\* dict.get(key, default)
Get(d, key, default) == IF key \in DOMAIN d THEN d[key] ELSE default

\* d[key] = value on a dict
Put(d, key, value) == [k \in DOMAIN d \cup {key} |-> IF k = key THEN value ELSE d[k]]

EmptyDict == [k \in {} |-> 0]

\* d[key] read on a defaultdict for every key of `keys`: a missing key is
\* inserted with the default
Touch(d, keys, default) ==
    [k \in DOMAIN d \cup keys |-> IF k \in DOMAIN d THEN d[k] ELSE default]

\* list[i] with Python's negative indices; <<>> stands for IndexError
PyGetItem(list, n) ==
    IF n >= 0 /\ n < Len(list) THEN <<list[n + 1]>>
    ELSE IF n < 0 /\ n >= -Len(list) THEN <<list[Len(list) + n + 1]>>
    ELSE <<>>

-----------------------------------------------------------------------------
(* datetime *)

Datetime(y, m, d) == [year |-> y, month |-> m, day |-> d]

\* datetime.strptime(value, "%Y-%m-%d")
parse_date(value) == Datetime(value[1], value[2], value[3])

\* datetime.strptime(value, "%m/%d/%Y")
parse_mdy(value) == Datetime(value[3], value[1], value[2])

\* a < b on datetimes
DtLess(a, b) ==
    \/ a.year < b.year
    \/ a.year = b.year /\ a.month < b.month
    \/ a.year = b.year /\ a.month = b.month /\ a.day < b.day

is_leap(y) == y % 4 = 0 /\ (y % 100 # 0 \/ y % 400 = 0)

days_before_year(y) ==
    (y - 1) * 365 + ((y - 1) \div 4) - ((y - 1) \div 100) + ((y - 1) \div 400)

DAYS_BEFORE_MONTH == <<0, 31, 59, 90, 120, 151, 181, 212, 243, 273, 304, 334>>

days_before_month(y, m) ==
    DAYS_BEFORE_MONTH[m] + (IF m > 2 /\ is_leap(y) THEN 1 ELSE 0)

toordinal(dt) == days_before_year(dt.year) + days_before_month(dt.year, dt.month) + dt.day

\* (a - b).days
DaysBetween(a, b) == toordinal(a) - toordinal(b)

-----------------------------------------------------------------------------
(* Inauguration, lines 28-37 *)

Inauguration_new(president, date) ==
    [president |-> president, term |-> 0, term_end_days |-> 0, date |-> date]

\* f"{inauguration.president} term {inauguration.term}"
TermKey(inauguration) ==
    inauguration.president \o " term " \o ToString(inauguration.term)

-----------------------------------------------------------------------------
(* find_inauguration, lines 40-57 *)

\* lines 41-43
FindInit(table) ==
    [index |-> Len(table) \div 2, start |-> 0, end |-> Len(table) - 1, ret |-> FALSE]

\* line 45
LoopCond(s) == s.index >= s.start /\ s.index <= s.end

\* line 52
Midpoint(lo, hi) == lo + ((hi - lo) \div 2)

\* LoopBody with `end = index` and `start = index`: the midpoint stays in the window
LoopBodyKeepsMidpoint(table, date, s) ==
    IF DtLess(date, table[s.index + 1].date)
    THEN [s EXCEPT !.end = s.index, !.index = Midpoint(s.start, s.index)]
    ELSE IF DtLess(table[s.index + 1].date, date)
    THEN [s EXCEPT !.start = s.index, !.index = Midpoint(s.index, s.end)]
    ELSE [s EXCEPT !.ret = TRUE]

\* lines 46-52: one iteration; ret is set when line 51 returns
LoopBody(table, date, s) ==
    IF DtLess(date, table[s.index + 1].date)
    THEN [s EXCEPT !.end = s.index - 1, !.index = Midpoint(s.start, s.index - 1)]
    ELSE IF DtLess(table[s.index + 1].date, date)
    THEN [s EXCEPT !.start = s.index + 1, !.index = Midpoint(s.index + 1, s.end)]
    ELSE [s EXCEPT !.ret = TRUE]

\* AfterLoop returning the interval at `start`, the one after the covering one
AfterLoopAtStart(table, s) ==
    IF s.end - s.start <= 1 THEN PyGetItem(table, s.start) ELSE <<>>

\* lines 54-57: <<inauguration>> is a return, <<>> an IndexError
AfterLoop(table, s) ==
    IF s.end - s.start <= 1 THEN PyGetItem(table, s.index) ELSE <<>>

RECURSIVE FindRun(_, _, _)
FindRun(table, date, s) ==
    IF LoopCond(s)
    THEN LET t == LoopBody(table, date, s)
         IN IF t.ret THEN <<table[s.index + 1]>> ELSE FindRun(table, date, t)
    ELSE AfterLoop(table, s)

find_inauguration(table, date) == FindRun(table, date, FindInit(table))

-----------------------------------------------------------------------------
(* main(), lines 113-124: the interval table *)

\* lines 114-117: the nested loops over inaugurations.items()
RECURSIVE DatesOf(_, _)
DatesOf(president, inauguration_dates) ==
    IF inauguration_dates = <<>> THEN <<>>
    ELSE <<Inauguration_new(president, parse_mdy(Head(inauguration_dates)))>>
         \o DatesOf(president, Tail(inauguration_dates))

RECURSIVE Flatten(_)
Flatten(items) ==
    IF items = <<>> THEN <<>>
    ELSE DatesOf(Head(items)[1], Head(items)[2]) \o Flatten(Tail(items))

\* list.sort(key=lambda t: t.date) is stable: an element goes after every
\* element whose key is not greater
RECURSIVE InsertByDate(_, _)
InsertByDate(list, x) ==
    IF list = <<>> THEN <<x>>
    ELSE IF DtLess(x.date, Head(list).date) THEN <<x>> \o list
    ELSE <<Head(list)>> \o InsertByDate(Tail(list), x)

RECURSIVE SortByDate(_)
SortByDate(list) ==
    IF list = <<>> THEN <<>>
    ELSE InsertByDate(SortByDate(SubSeq(list, 1, Len(list) - 1)), list[Len(list)])

\* line 123
Seen(seen_count, president) == Get(seen_count, president, 0) + 1

\* lines 121-124: the scan with the per-president counter
RECURSIVE AssignTerms(_, _)
AssignTerms(list, seen_count) ==
    IF list = <<>> THEN <<>>
    ELSE LET president == Head(list).president
             count == Seen(seen_count, president)
         IN <<[Head(list) EXCEPT !.term = count]>>
            \o AssignTerms(Tail(list), Put(seen_count, president, count))

\* SortedTable without the sort of line 119
SortedTableUnsorted(items) == AssignTerms(Flatten(items), EmptyDict)

\* lines 113-124
SortedTable(items) == AssignTerms(SortByDate(Flatten(items)), EmptyDict)

-----------------------------------------------------------------------------
(* main(), lines 170-181: the cumulative series of one term *)

\* SeriesBody breaking one day early, on `i >= term_end_days`
SeriesBodyBreaksEarly(day, per_day, term_end_days, st) ==
    IF day >= term_end_days THEN [st EXCEPT !.broke = TRUE]
    ELSE LET t == st.total + Get(per_day, day, 0)
         IN [st EXCEPT !.total = t, !.points = Append(@, t)]

\* SeriesBody appending only on the days that have orders
SeriesBodySkipsEmptyDays(day, per_day, term_end_days, st) ==
    IF day > term_end_days THEN [st EXCEPT !.broke = TRUE]
    ELSE IF day \notin DOMAIN per_day THEN st
    ELSE LET t == st.total + per_day[day]
         IN [st EXCEPT !.total = t, !.points = Append(@, t)]

\* lines 177-181: the body of the loop for one day; broke is the `break`
SeriesBody(day, per_day, term_end_days, st) ==
    IF day > term_end_days THEN [st EXCEPT !.broke = TRUE]
    ELSE LET t == st.total + Get(per_day, day, 0)
         IN [st EXCEPT !.total = t, !.points = Append(@, t)]

\* line 176: `for i in range(lo, hi)`, the days taken in order, the state of
\* one day handed to the next (split in halves to keep the evaluation shallow)
RECURSIVE ForRange(_, _, _, _, _)
ForRange(lo, hi, per_day, term_end_days, st) ==
    IF lo >= hi \/ st.broke THEN st
    ELSE IF hi = lo + 1 THEN SeriesBody(lo, per_day, term_end_days, st)
    ELSE LET mid == lo + ((hi - lo) \div 2)
         IN ForRange(mid, hi, per_day, term_end_days,
                     ForRange(lo, mid, per_day, term_end_days, st))

\* lines 176-181 for one term, from its total and points so far
SeriesLoop(per_day, term_end_days, total, points) ==
    ForRange(0, ONE_YEAR_IN_DAYS, per_day, term_end_days,
             [total |-> total, points |-> points, broke |-> FALSE])

-----------------------------------------------------------------------------
(* The inputs main() reads *)

Presidents == {"A", "B"}

\* date strings of inaugurations.json, "%m/%d/%Y"
InaugurationDates == {<<1, 20, 2021>>, <<1, 30, 2021>>, <<1, 20, 2025>>}

\* signing_date strings of the corpus, "%Y-%m-%d"
SigningDates == {<<2021, 1, 10>>, <<2021, 1, 20>>, <<2021, 2, 4>>}

\* the day datetime.now() falls on: a year after the first start of the pool,
\* less than a year after the second, before the third
Clock == {Datetime(2022, 1, 20)}

\* --start-date, --end-date, --only-terms
StartDateArgs == {None, Some(parse_date(<<2021, 1, 30>>))}
EndDateArgs == {None, Some(parse_date(<<2025, 1, 20>>))}
OnlyTermsArgs == {<<>>, <<"A term 1">>}

DistinctSeqs(S, k) ==
    UNION {{s \in [1..n -> S] : \A a, b \in 1..n : a # b => s[a] # s[b]} : n \in 1..k}

Range(s) == {s[k] : k \in DOMAIN s}

\* the items of the JSON object: distinct presidents, each with its dates
ItemsOf(dates, max) ==
    LET lists == DistinctSeqs(dates, max)
    IN {<<>>}
       \cup {<< <<p, l>> >> : p \in Presidents, l \in lists}
       \cup {<< <<pl[1], ll[1]>>, <<pl[2], ll[2]>> >> :
                pl \in {x \in Presidents \X Presidents : x[1] # x[2]},
                ll \in {y \in lists \X lists :
                           /\ Len(y[1]) + Len(y[2]) <= max
                           /\ Range(y[1]) \cap Range(y[2]) = {}}}

InaugurationInputs == ItemsOf(InaugurationDates, MaxInaugurations)

OrderInputs ==
    UNION {[1..n -> {[signing_date |-> d] : d \in SigningDates}] : n \in 0..MaxOrders}

FindIdle ==
    /\ fdate = None
    /\ index = 0
    /\ start = 0
    /\ end = 0
    /\ fpc = "idle"
    /\ fresult = None
    /\ iters = 0

\* main() between lines 111 and 113, before anything is computed
Fresh ==
    /\ sorted_inaugurations = <<>>
    /\ earliest_order_date = None
    /\ president_per_day = EmptyDict
    /\ by_term = EmptyDict
    /\ order_pos = 0
    /\ i = 0
    /\ sorted_terms = <<>>
    /\ inaugurations_by_term = EmptyDict
    /\ table_data = <<>>
    /\ datapoints = EmptyDict
    /\ total_sums = EmptyDict
    /\ term_pos = 0
    /\ outcome = "running"

NoArgs == [show_counts |-> FALSE, start_date |-> None, end_date |-> None,
           only_terms |-> <<>>]

\* main() after line 111: everything read, nothing computed
Init ==
    /\ pc = "build"
    /\ inaugurations \in InaugurationInputs
    /\ executive_orders \in OrderInputs
    /\ args \in [show_counts : BOOLEAN, start_date : StartDateArgs,
                 end_date : EndDateArgs, only_terms : OnlyTermsArgs]
    /\ now \in Clock
    /\ Fresh
    /\ FindIdle

-----------------------------------------------------------------------------
(* main(), step by step *)

\* lines 113-128
BuildTable ==
    /\ pc = "build"
    /\ sorted_inaugurations' = SortedTable(inaugurations)
    /\ pc' = "attribute"
    /\ UNCHANGED <<inaugurations, executive_orders, args, now, earliest_order_date,
                   president_per_day, by_term, order_pos, i, sorted_terms,
                   inaugurations_by_term, table_data, datapoints, total_sums,
                   term_pos, outcome>>
    /\ UNCHANGED findVars

\* lines 132-133
Earliest(earliest, order_date) ==
    IF earliest = None \/ DtLess(order_date, earliest[1]) THEN Some(order_date)
    ELSE earliest

\* line 137
DaysFromInauguration(order_date, inauguration) ==
    DaysBetween(order_date, inauguration.date)

\* line 140
CountDay(per_day, term_key, day) ==
    LET of_term == Get(per_day, term_key, EmptyDict)
    IN Put(per_day, term_key, Put(of_term, day, Get(of_term, day, 0) + 1))

\* lines 130-142: one order of the corpus
AttributeOrder ==
    /\ pc = "attribute"
    /\ order_pos < Len(executive_orders)
    /\ LET order == executive_orders[order_pos + 1]
           order_date == parse_date(order.signing_date)
           found == find_inauguration(sorted_inaugurations, order_date)
       IN /\ earliest_order_date' = Earliest(earliest_order_date, order_date)
          /\ IF found = <<>>
             THEN /\ outcome' = "IndexError"
                  /\ pc' = "done"
                  /\ UNCHANGED <<president_per_day, by_term, order_pos>>
             ELSE LET inauguration == found[1]
                      term_key == TermKey(inauguration)
                  IN /\ president_per_day' =
                            CountDay(president_per_day, term_key,
                                     DaysFromInauguration(order_date, inauguration))
                     /\ by_term' = Put(by_term, term_key,
                                       Append(Get(by_term, term_key, <<>>), order))
                     /\ order_pos' = order_pos + 1
                     /\ UNCHANGED <<pc, outcome>>
    /\ UNCHANGED <<inaugurations, executive_orders, args, now, sorted_inaugurations,
                   i, sorted_terms, inaugurations_by_term, table_data, datapoints,
                   total_sums, term_pos>>
    /\ UNCHANGED findVars

\* Listed without the test of line 148
ListedWhateverTheCorpus(inauguration, earliest, a) ==
    /\ ~(Truthy(a.start_date) /\ DtLess(inauguration.date, a.start_date[1]))
    /\ ~(Truthy(a.end_date) /\ ~DtLess(inauguration.date, a.end_date[1]))

\* lines 148-155: TRUE when no `continue` is taken (earliest is a datetime)
Listed(inauguration, earliest, a) ==
    /\ ~DtLess(inauguration.date, earliest)
    /\ ~(Truthy(a.start_date) /\ DtLess(inauguration.date, a.start_date[1]))
    /\ ~(Truthy(a.end_date) /\ ~DtLess(inauguration.date, a.end_date[1]))

\* TermEndDays measuring every interval up to the clock
TermEndDaysToClock(table, k, clock) == DaysBetween(clock, table[k + 1].date)

\* lines 157-160; k is the 0-based index
TermEndDays(table, k, clock) ==
    IF k < Len(table) - 1
    THEN DaysBetween(table[k + 2].date, table[k + 1].date)
    ELSE DaysBetween(clock, table[k + 1].date)

\* lines 144-164: one interval of the table, once the corpus is consumed
FilterTerm ==
    /\ pc = "attribute"
    /\ order_pos = Len(executive_orders)
    /\ i < Len(sorted_inaugurations)
    /\ IF earliest_order_date = None
       THEN \* line 148 compares a datetime with None
            /\ outcome' = "TypeError"
            /\ pc' = "done"
            /\ UNCHANGED <<sorted_inaugurations, i, sorted_terms, inaugurations_by_term>>
       ELSE /\ IF Listed(sorted_inaugurations[i + 1], earliest_order_date[1], args)
               THEN LET kept == [sorted_inaugurations[i + 1] EXCEPT
                                    !.term_end_days =
                                        TermEndDays(sorted_inaugurations, i, now)]
                    IN /\ sorted_inaugurations' =
                              [sorted_inaugurations EXCEPT ![i + 1] = kept]
                       /\ sorted_terms' = Append(sorted_terms, TermKey(kept))
                       /\ inaugurations_by_term' =
                              Put(inaugurations_by_term, TermKey(kept), kept)
               ELSE UNCHANGED <<sorted_inaugurations, sorted_terms,
                                inaugurations_by_term>>
            /\ i' = i + 1
            /\ UNCHANGED <<pc, outcome>>
    /\ UNCHANGED <<inaugurations, executive_orders, args, now, earliest_order_date,
                   president_per_day, by_term, order_pos, table_data, datapoints,
                   total_sums, term_pos>>
    /\ UNCHANGED findVars

\* lines 166-168; by_term[term] of line 168 inserts the terms without orders
CountTable ==
    /\ pc = "attribute"
    /\ order_pos = Len(executive_orders)
    /\ i = Len(sorted_inaugurations)
    /\ by_term' = Touch(by_term, Range(sorted_terms), <<>>)
    /\ table_data' = [k \in 1..Len(sorted_terms) |->
                         <<sorted_terms[k], Len(by_term'[sorted_terms[k]])>>]
    /\ pc' = "series"
    /\ UNCHANGED <<inaugurations, executive_orders, args, now, sorted_inaugurations,
                   earliest_order_date, president_per_day, order_pos, i,
                   sorted_terms, inaugurations_by_term, datapoints, total_sums,
                   term_pos, outcome>>
    /\ UNCHANGED findVars

\* line 173
Allowed(term, only_terms) == ~(only_terms # <<>> /\ term \notin Range(only_terms))

\* lines 172-181: one term of sorted_terms; when line 180 is reached,
\* president_per_day[term] inserts the term without orders
SeriesTerm ==
    /\ pc = "series"
    /\ term_pos < Len(sorted_terms)
    /\ LET term == sorted_terms[term_pos + 1]
           built == SeriesLoop(Get(president_per_day, term, EmptyDict),
                               inaugurations_by_term[term].term_end_days,
                               Get(total_sums, term, 0), Get(datapoints, term, <<>>))
       IN IF Allowed(term, args.only_terms) /\ built.points # <<>>
          THEN /\ datapoints' = Put(datapoints, term, built.points)
               /\ total_sums' = Put(total_sums, term, built.total)
               /\ president_per_day' = Touch(president_per_day, {term}, EmptyDict)
          ELSE UNCHANGED <<datapoints, total_sums, president_per_day>>
    /\ term_pos' = term_pos + 1
    /\ UNCHANGED <<pc, inaugurations, executive_orders, args, now, sorted_inaugurations,
                   earliest_order_date, by_term, order_pos, i,
                   sorted_terms, inaugurations_by_term, table_data, outcome>>
    /\ UNCHANGED findVars

\* lines 197-198 and 209-213: the terms whose datapoints[term] is plotted
Plotted(terms, a) ==
    IF a.show_counts THEN Range(terms)
    ELSE {term \in Range(terms) : Allowed(term, a.only_terms)}

\* lines 183-217; datapoints[term] of lines 198 and 213 inserts the plotted
\* terms that have no series
Finish ==
    /\ pc = "series"
    /\ term_pos = Len(sorted_terms)
    /\ IF DOMAIN datapoints = {}
       THEN /\ outcome' = "no data"
            /\ UNCHANGED datapoints
       ELSE /\ outcome' = "plotted"
            /\ datapoints' = Touch(datapoints, Plotted(sorted_terms, args), <<>>)
    /\ pc' = "done"
    /\ UNCHANGED <<inaugurations, executive_orders, args, now, sorted_inaugurations,
                   earliest_order_date, president_per_day, by_term, order_pos, i,
                   sorted_terms, inaugurations_by_term, table_data,
                   total_sums, term_pos>>
    /\ UNCHANGED findVars

Next == BuildTable \/ AttributeOrder \/ FilterTerm \/ CountTable \/ SeriesTerm \/ Finish

Spec == Init /\ [][Next]_vars

-----------------------------------------------------------------------------
(* The interval table alone, lines 113-124, over larger inputs *)

TableDates == {<<1, 20, 2017>>, <<1, 20, 2021>>, <<1, 20, 2025>>, <<3, 4, 1933>>}

MaxTerms == 3

InitTable ==
    /\ pc = "build"
    /\ inaugurations \in ItemsOf(TableDates, MaxTerms)
    /\ executive_orders = <<>>
    /\ args = NoArgs
    /\ now = Datetime(2026, 10, 29)
    /\ Fresh
    /\ FindIdle

SpecTable == InitTable /\ [][BuildTable]_vars

-----------------------------------------------------------------------------
(* find_inauguration alone, lines 40-57, one loop iteration per step *)

FindDates == {<<1, 20, 2001>>, <<1, 20, 2005>>, <<1, 20, 2009>>,
              <<1, 20, 2013>>, <<1, 20, 2017>>, <<1, 20, 2021>>}

\* dates looked up: before every start, on a start, between starts, after all
FindQueries == {<<2000, 12, 31>>, <<2001, 1, 20>>, <<2003, 6, 15>>, <<2005, 1, 20>>,
                <<2005, 1, 21>>, <<2009, 1, 19>>, <<2009, 1, 20>>, <<2013, 1, 20>>,
                <<2016, 2, 29>>, <<2017, 1, 20>>, <<2021, 1, 20>>, <<2024, 7, 4>>}

Ascending(l) == \A k \in 1..(Len(l) - 1) : DtLess(parse_mdy(l[k]), parse_mdy(l[k + 1]))

\* the call of line 135 on a table built by lines 113-124
InitFind ==
    /\ pc = "attribute"
    /\ inaugurations \in {<< <<"A", l>> >> :
                             l \in {x \in DistinctSeqs(FindDates, MaxTable) : Ascending(x)}}
    /\ executive_orders \in {<<[signing_date |-> d]>> : d \in FindQueries}
    /\ args = NoArgs
    /\ now = Datetime(2026, 10, 29)
    /\ sorted_inaugurations = SortedTable(inaugurations)
    /\ earliest_order_date = Some(parse_date(executive_orders[1].signing_date))
    /\ president_per_day = EmptyDict
    /\ by_term = EmptyDict
    /\ order_pos = 0
    /\ i = 0
    /\ sorted_terms = <<>>
    /\ inaugurations_by_term = EmptyDict
    /\ table_data = <<>>
    /\ datapoints = EmptyDict
    /\ total_sums = EmptyDict
    /\ term_pos = 0
    /\ outcome = "running"
    /\ fdate = Some(parse_date(executive_orders[1].signing_date))
    /\ index = 0
    /\ start = 0
    /\ end = 0
    /\ fpc = "call"
    /\ fresult = None
    /\ iters = 0

Locals == [index |-> index, start |-> start, end |-> end, ret |-> FALSE]

\* lines 41-43
FindCall ==
    /\ fpc = "call"
    /\ LET s == FindInit(sorted_inaugurations)
       IN /\ index' = s.index
          /\ start' = s.start
          /\ end' = s.end
    /\ fpc' = "loop"
    /\ UNCHANGED <<fdate, fresult, iters>>
    /\ UNCHANGED mainVars

\* lines 45-52: one iteration of the while loop
FindLoop ==
    /\ fpc = "loop"
    /\ LoopCond(Locals)
    /\ LET t == LoopBody(sorted_inaugurations, fdate[1], Locals)
       IN /\ index' = t.index
          /\ start' = t.start
          /\ end' = t.end
          /\ IF t.ret
             THEN /\ fpc' = "returned"
                  /\ fresult' = <<sorted_inaugurations[index + 1]>>
             ELSE UNCHANGED <<fpc, fresult>>
    /\ iters' = iters + 1
    /\ UNCHANGED fdate
    /\ UNCHANGED mainVars

\* lines 54-57: the loop condition is false
FindExit ==
    /\ fpc = "loop"
    /\ ~LoopCond(Locals)
    /\ LET r == AfterLoop(sorted_inaugurations, Locals)
       IN /\ fresult' = r
          /\ fpc' = IF r = <<>> THEN "raised" ELSE "returned"
    /\ UNCHANGED <<fdate, index, start, end, iters>>
    /\ UNCHANGED mainVars

NextFind == FindCall \/ FindLoop \/ FindExit

SpecFind == InitFind /\ [][NextFind]_vars

\* the interpreter runs the call to its end
SpecFindFair == SpecFind /\ WF_vars(NextFind)

FindDone == fpc \in {"returned", "raised"}

\* the stepwise run and the call of line 135 agree
FindAgrees ==
    FindDone => fresult = find_inauguration(sorted_inaugurations, fdate[1])

-----------------------------------------------------------------------------
(* Properties of find_inauguration, checked under SpecFind *)

FirstStart == sorted_inaugurations[1].date

\* C1: on a non-empty sorted table and a date at or after the first start,
\* find_inauguration returns the interval of the table whose start is the
\* greatest start <= date.
C1_GreatestStartAtOrBefore ==
    (FindDone /\ Len(sorted_inaugurations) >= 1 /\ ~DtLess(fdate[1], FirstStart)) =>
        /\ fpc = "returned"
        /\ \E k \in 1..Len(sorted_inaugurations) :
              /\ fresult[1] = sorted_inaugurations[k]
              /\ ~DtLess(fdate[1], sorted_inaugurations[k].date)
              /\ \A j \in 1..Len(sorted_inaugurations) :
                    ~DtLess(fdate[1], sorted_inaugurations[j].date) => j <= k

\* a date strictly between the two starts of a table of two went to the first
C1_Witness ==
    /\ fpc = "returned"
    /\ Len(sorted_inaugurations) = 2
    /\ DtLess(sorted_inaugurations[1].date, fdate[1])
    /\ DtLess(fdate[1], sorted_inaugurations[2].date)
    /\ fresult[1] = sorted_inaugurations[1]

\* C2: for a date strictly before the first start, find_inauguration raises
\* and returns no interval.
C2_BeforeFirstRaises ==
    (FindDone /\ Len(sorted_inaugurations) >= 1 /\ DtLess(fdate[1], FirstStart)) =>
        fpc = "raised"

WindowSize == end - start

\* C8: every iteration that does not return strictly shrinks the window
\* [start, end], at most Len(table) iterations run, and the call ends.
C8_SearchTerminates ==
    /\ [][/\ (fpc = "loop" /\ fpc' = "loop") => WindowSize' < WindowSize
          /\ iters' <= Len(sorted_inaugurations)]_vars
    /\ <>FindDone

\* a table of two took two iterations, the second on a window of size 1
C8_Witness ==
    /\ FindDone
    /\ Len(sorted_inaugurations) = 2
    /\ iters = 2
    /\ start = 0
    /\ end = -1

-----------------------------------------------------------------------------
(* Properties of the interval table, checked under SpecTable *)

\* the (president, start) pairs of the input
InputPairs ==
    UNION {{<<inaugurations[a][1], parse_mdy(inaugurations[a][2][b])>> :
               b \in 1..Len(inaugurations[a][2])} : a \in 1..Len(inaugurations)}

\* C5: whatever the order of the input, the table holds the input's pairs in
\* strictly increasing order of start, and the k-th term of a president
\* in that order carries ordinal k; the table is a function of the set of pairs.
C5_OrdinalsChronological ==
    pc # "build" =>
        LET t == sorted_inaugurations
        IN /\ Len(t) = Cardinality(InputPairs)
           /\ {<<t[k].president, t[k].date>> : k \in 1..Len(t)} = InputPairs
           /\ \A k \in 1..(Len(t) - 1) : DtLess(t[k].date, t[k + 1].date)
           /\ \A k \in 1..Len(t) :
                 t[k].term = Cardinality({j \in 1..k : t[j].president = t[k].president})

\* the file lists A's later term before its earlier one, and B's in between
C5_Witness ==
    /\ pc # "build"
    /\ Len(inaugurations) = 2
    /\ inaugurations[1][2] = << <<1, 20, 2025>>, <<1, 20, 2017>> >>
    /\ Len(sorted_inaugurations) = 3
    /\ [k \in 1..3 |-> TermKey(sorted_inaugurations[k])]
           = <<"A term 1", "B term 1", "A term 2">>

-----------------------------------------------------------------------------
(* Properties of main(), checked under Spec *)

Min(a, b) == IF a < b THEN a ELSE b
Max(a, b) == IF a > b THEN a ELSE b

\* C3: no term's frequency table has a negative day offset as a key.
C3_NoNegativeOffset ==
    Len(sorted_inaugurations) >= 1 =>
        \A term \in DOMAIN president_per_day :
            \A day \in DOMAIN president_per_day[term] : day >= 0

\* the terms the loop of line 172 has handled and line 173 let through
SeriesBuilt == {sorted_terms[k] : k \in 1..term_pos} \cap
               {term \in Range(sorted_terms) : Allowed(term, args.only_terms)}

PointsOf(term) == Get(datapoints, term, <<>>)

\* every order of the corpus is signed at or after the first start
CorpusCovered ==
    \A k \in 1..Len(executive_orders) :
        ~DtLess(parse_date(executive_orders[k].signing_date), sorted_inaugurations[1].date)

\* now is not before the last start
ClockCovered == ~DtLess(now, sorted_inaugurations[Len(sorted_inaugurations)].date)

\* C4 as stated: a series has min(365, term_end_days) + 1 elements (here on
\* the runs where the corpus and the clock are within the table).
C4_LengthMinPlusOne ==
    \A term \in SeriesBuilt :
        (CorpusCovered /\ ClockCovered) =>
            Len(PointsOf(term)) =
                Min(ONE_YEAR_IN_DAYS, inaugurations_by_term[term].term_end_days) + 1

\* C4 amended: a series has min(365, term_end_days + 1) elements, none when
\* term_end_days is negative: one per offset 0..min(364, term_end_days).
C4_LengthWithinHorizon ==
    \A term \in SeriesBuilt :
        Len(PointsOf(term)) =
            Max(0, Min(ONE_YEAR_IN_DAYS, inaugurations_by_term[term].term_end_days + 1))

\* a term lasting four years has a series of 365 elements
C4_Witness ==
    \E term \in SeriesBuilt :
        /\ inaugurations_by_term[term].term_end_days = 1461
        /\ Len(PointsOf(term)) = 365

\* the loop of line 147 has run to its end
Processed == pc = "series" \/ outcome \in {"no data", "plotted"}

IsListed(inauguration) == TermKey(inauguration) \in Range(sorted_terms)

\* C6 as stated: every non-last interval has term_end_days equal to the days
\* to the next start, and no interval has a negative term_end_days (here on
\* the runs where the corpus and the clock are within the table).
C6_EveryEndOffset ==
    (Processed /\ sorted_inaugurations # <<>> /\ CorpusCovered /\ ClockCovered) =>
        LET t == sorted_inaugurations
        IN /\ \A k \in 1..(Len(t) - 1) :
                 t[k].term_end_days = DaysBetween(t[k + 1].date, t[k].date)
           /\ \A k \in 1..Len(t) : t[k].term_end_days >= 0

\* C6 amended: a non-last interval the filters of lines 148-155 keep has
\* term_end_days equal to the days to the next start, which is positive; an
\* interval they skip keeps 0; the last interval, when kept, has the days from
\* its start to now.
C6_ListedEndOffset ==
    Processed =>
        LET t == sorted_inaugurations
        IN \A k \in 1..Len(t) :
              IF ~IsListed(t[k]) THEN t[k].term_end_days = 0
              ELSE IF k < Len(t)
              THEN /\ t[k].term_end_days = DaysBetween(t[k + 1].date, t[k].date)
                   /\ t[k].term_end_days > 0
              ELSE t[k].term_end_days = DaysBetween(now, t[k].date)

\* of two intervals the first was skipped and kept 0, the second was listed
C6_Witness ==
    /\ Processed
    /\ Len(sorted_inaugurations) = 2
    /\ ~IsListed(sorted_inaugurations[1])
    /\ sorted_inaugurations[1].term_end_days = 0
    /\ IsListed(sorted_inaugurations[2])
    /\ sorted_inaugurations[2].term_end_days > 0

RECURSIVE SetSum(_, _)
SetSum(f, S) ==
    IF S = {} THEN 0
    ELSE LET x == CHOOSE y \in S : TRUE IN f[x] + SetSum(f, S \ {x})

\* the orders of a term counted at offsets 0..day
CountedUpTo(term, day) ==
    LET per_day == Get(president_per_day, term, EmptyDict)
    IN SetSum(per_day, {d \in DOMAIN per_day : d >= 0 /\ d <= day})

\* C7: the element of a series at offset k is the number of the term's orders
\* at offsets 0..k, for every k from 0 to the end of the series, and the
\* series never decreases.
C7_RunningSum ==
    \A term \in DOMAIN datapoints :
        LET points == datapoints[term]
        IN /\ \A k \in 1..Len(points) : points[k] = CountedUpTo(term, k - 1)
           /\ \A k \in 1..(Len(points) - 1) : points[k] <= points[k + 1]

\* a series that starts at 1, stays there over days without orders and ends at 2
C7_Witness ==
    \E term \in DOMAIN datapoints :
        /\ datapoints[term][1] = 1
        /\ datapoints[term][15] = 1
        /\ datapoints[term][16] = 2
        /\ datapoints[term][Len(datapoints[term])] = 2

\* C9: on a non-empty table, a run that ends with no term in the series ends
\* in the "no data" outcome.
C9_NoDataNotCrash ==
    (pc = "done" /\ Len(sorted_inaugurations) >= 1 /\ DOMAIN datapoints = {}) =>
        outcome = "no data"

\* C10: a term is in sorted_terms, the count table or the series only if its
\* start is at or after the earliest signing date, so an interval that starts
\* before the earliest signing date is not listed.
C10_ListedFromEarliest ==
    /\ \A term \in Range(sorted_terms) :
          /\ earliest_order_date # None
          /\ ~DtLess(inaugurations_by_term[term].date, earliest_order_date[1])
    /\ {table_data[k][1] : k \in 1..Len(table_data)} \subseteq Range(sorted_terms)
    /\ DOMAIN datapoints \subseteq Range(sorted_terms)
    /\ \A k \in 1..Len(sorted_inaugurations) :
          (earliest_order_date # None
           /\ DtLess(sorted_inaugurations[k].date, earliest_order_date[1]))
              => ~IsListed(sorted_inaugurations[k])

\* the earliest order was attributed to a term that began before it, and that
\* term is missing from the output while a later term is listed
C10_Witness ==
    /\ pc = "done"
    /\ earliest_order_date # None
    /\ \E k \in 1..Len(sorted_inaugurations) :
          /\ DtLess(sorted_inaugurations[k].date, earliest_order_date[1])
          /\ Len(Get(by_term, TermKey(sorted_inaugurations[k]), <<>>)) >= 1
          /\ ~IsListed(sorted_inaugurations[k])
    /\ sorted_terms # <<>>

====
